---- MODULE Spec2Model ----
(***************************************************************************)
(* Measurement lifecycle of src/src/index.ts: the in-memory `database`,    *)
(* the POST /upload handler (split at its awaits), the PATCH /confirm      *)
(* handler and the GET /:customer_code/list handler, run by one event loop *)
(* that interleaves the handlers of concurrent requests at their awaits.   *)
(***************************************************************************)
EXTENDS Integers, Sequences, FiniteSets, TLC

(* ------------------------------ bounds --------------------------------- *)

\* Upload requests that pass validation over one run.
MaxUploads == 2

\* The same, in the runs whose uploads do not overlap.
MaxSerialUploads == 3

\* The same, in the runs whose uploads carry any customer code and any
\* spelling of the type.
MaxWideUploads == 2

\* The same, in the runs that send every combination of field values.
MaxValidated == 1

\* Upload handlers suspended at an await at the same time.
MaxInFlight == 2

\* Largest value Date.now() takes (milliseconds since the server started).
MaxClock == 1

(* ------------------------- JavaScript values --------------------------- *)

\* A request field that is absent (typeof 'undefined').
Undefined == "#undefined"

\* A request field holding a JSON number where a string is expected.
NumberValue == "#number"

\* typeof x, for the request fields that are strings or one of the above.
TypeOf(x) ==
  IF x = Undefined THEN "undefined"
  ELSE IF x = NumberValue THEN "number"
  ELSE "string"

\* A confirmed_value whose typeof is not 'number' (a JSON string).
NonNumber == -1

\* typeof of a confirmed_value.
TypeOfValue(v) == IF v = NonNumber THEN "string" ELSE "number"

\* NaN, as Date.prototype.getTime and parseFloat return it.
NaN == -2

\* The null that processAndDescribeImage returns.
Null == -3

(* ------------------------------ inputs --------------------------------- *)

PngPrefix == "data:image/png;base64,"

BmpPrefix == "data:image/bmp;base64,"

JpegPrefix == "data:image/jpeg;base64,"

\* An image payload is the sequence of its characters; a data-URI prefix is
\* kept as one element.
ValidImages == {<<"A", "b", "9", "/">>, <<PngPrefix, "A", "b", "+", "=">>}

ValidDatetimes == {"2024-01-10T10:00:00Z", "2024-02-10T10:00:00Z"}

\* Bodies of POST /upload that pass the validation.
ValidUploads ==
  [image : ValidImages, customer_code : {"C1"},
   measure_datetime : ValidDatetimes, measure_type : {"WATER", "GAS"}]

\* Bodies of POST /upload with one field the validation rejects.
InvalidUploads ==
  LET ok == [image |-> <<"A", "b", "9", "/">>, customer_code |-> "C1",
             measure_datetime |-> "2024-01-10T10:00:00Z", measure_type |-> "WATER"]
  IN { [ok EXCEPT !.customer_code = NumberValue],
       [ok EXCEPT !.measure_datetime = "yesterday"],
       [ok EXCEPT !.measure_type = "OIL"],
       [ok EXCEPT !.measure_type = Undefined],
       [ok EXCEPT !.image = << >>],
       [ok EXCEPT !.image = <<"A", "*", "b", "9">>],
       [ok EXCEPT !.image = <<BmpPrefix, "A", "b">>] }

UploadBodies == ValidUploads \cup InvalidUploads

\* Bodies that pass the validation, of two customers and with the type in
\* either letter case.
WideValidUploads ==
  [image : {<<"A", "b", "9", "/">>}, customer_code : {"C1", "C2"},
   measure_datetime : ValidDatetimes, measure_type : {"WATER", "GAS", "water"}]

WideUploadBodies == WideValidUploads \cup InvalidUploads

\* Every combination of valid and invalid values of the four fields.
AllUploadBodies ==
  [image : ValidImages \cup {<< >>, <<"A", "*", "b", "9">>, <<BmpPrefix, "A", "b">>},
   customer_code : {"C1", "", NumberValue},
   measure_datetime : {"2024-01-10T10:00:00Z", "yesterday"},
   measure_type : {"WATER", "GAS", "water", "OIL", Undefined}]

\* customer_code and measure_type of GET /:customer_code/list.
ListCustomers == {"C1", "C2"}

ListTypes == {"WATER", "gas", "OIL", Undefined}

\* What the recognition service answers: a text, or a thrown error.
ServiceThrows == "#throws"

ServiceReplies == {"10", "no reading", ServiceThrows}

\* confirmed_value of a confirm request.
ConfirmValues == {10, 20, NonNumber}

(* --------------------------- pure functions ---------------------------- *)

\* new Date(dateString).getTime(), in seconds instead of milliseconds (the
\* value is only tested for NaN), or NaN for a text that is no date.
DateGetTime(dateString) ==
  CASE dateString = "2024-01-10T10:00:00Z" -> 1704880800
    [] dateString = "2024-02-10T10:00:00Z" -> 1707559200
    [] OTHER -> NaN

isValidDate(dateString) == DateGetTime(dateString) # NaN

\* String.prototype.toUpperCase on the measure types of the model.
toUpperCase(s) ==
  CASE s = "water" -> "WATER"
    [] s = "gas" -> "GAS"
    [] OTHER -> s

\* parseFloat(text)
parseFloat(text) == IF text = "10" THEN 10 ELSE NaN

Base64Alphabet == {"A", "b", "9", "+", "/"}

AllowedPrefixes == {JpegPrefix, PngPrefix}

IsPrefix(e) == e \in {JpegPrefix, PngPrefix, BmpPrefix}

\* Number of characters of one element of a payload.
CharLen(e) == IF e = JpegPrefix THEN 23 ELSE IF IsPrefix(e) THEN 22 ELSE 1

RECURSIVE StringLength(_)
StringLength(s) == IF s = << >> THEN 0 ELSE CharLen(Head(s)) + StringLength(Tail(s))

\* base64ImageRegex.test(image) ? image.replace(base64ImageRegex, '') : image
StripPrefix(image) ==
  IF image # << >> /\ Head(image) \in AllowedPrefixes THEN Tail(image) ELSE image

\* /^[A-Za-z0-9+\/]*={0,2}$/.test(s)
base64Pattern(s) ==
  \E k \in 0..2 :
    /\ k <= Len(s)
    /\ \A i \in 1..Len(s) :
         IF i > Len(s) - k THEN s[i] = "=" ELSE s[i] \in Base64Alphabet

\* atob(s) does not throw: after dropping one or two trailing '=' of a string
\* whose length is a multiple of 4, the rest is in the alphabet and its length
\* is not 1 modulo 4.
AtobOk(s) ==
  LET n == Len(s)
      pad == IF n % 4 = 0 /\ n >= 2 /\ s[n] = "=" /\ s[n - 1] = "=" THEN 2
             ELSE IF n % 4 = 0 /\ n >= 1 /\ s[n] = "=" THEN 1
             ELSE 0
      body == SubSeq(s, 1, n - pad)
  IN /\ Len(body) % 4 # 1
     /\ \A i \in 1..Len(body) : body[i] \in Base64Alphabet

isBase64Image(image) ==
  LET base64Data == StripPrefix(image)
  IN IF StringLength(base64Data) % 4 # 0 THEN FALSE
     ELSE IF ~base64Pattern(base64Data) THEN FALSE
     ELSE AtobOk(base64Data)

NoError == "none"

\* A validation that tests the type before the datetime.
validateUploadRequestTypeFirst(image, customer_code, measure_datetime, measure_type) ==
  IF TypeOf(customer_code) # "string" THEN "customer_code"
  ELSE IF TypeOf(measure_type) # "string"
          \/ toUpperCase(measure_type) \notin {"WATER", "GAS"} THEN "measure_type"
  ELSE IF ~isValidDate(measure_datetime) THEN "measure_datetime"
  ELSE IF image = << >> \/ ~isBase64Image(image) THEN "image"
  ELSE NoError

\* The rule validateUploadRequest reports as violated, or NoError.
validateUploadRequest(image, customer_code, measure_datetime, measure_type) ==
  IF TypeOf(customer_code) # "string" THEN "customer_code"
  ELSE IF ~isValidDate(measure_datetime) THEN "measure_datetime"
  ELSE IF TypeOf(measure_type) # "string"
          \/ toUpperCase(measure_type) \notin {"WATER", "GAS"} THEN "measure_type"
  ELSE IF image = << >> \/ ~isBase64Image(image) THEN "image"
  ELSE NoError

\* `${Date.now()}`
TimeString(t) == ToString(t)

\* path.join(__dirname, 'tmp', `${Date.now()}.jpg`)
FilePath(t) == "tmp/" \o ToString(t) \o ".jpg"

\* Array.prototype.find: the first of the indices that satisfy the callback,
\* or 0 when there is none (find returns undefined).
FirstIndex(indices) ==
  IF indices = {} THEN 0 ELSE CHOOSE i \in indices : \A j \in indices : i <= j

\* database.find(measure => measure.measure_datetime === measure_datetime)
FindByDatetime(db, measure_datetime) ==
  FirstIndex({i \in 1..Len(db) : db[i].measure_datetime = measure_datetime})

\* A lookup that falls back to the first measure when no uuid matches.
FindByUuidOrFirst(db, measure_uuid) ==
  LET i == FirstIndex({j \in 1..Len(db) : db[j].measure_uuid = measure_uuid})
  IN IF i = 0 /\ db # << >> THEN 1 ELSE i

\* database.find(measure => measure.measure_uuid === measure_uuid)
FindByUuid(db, measure_uuid) ==
  FirstIndex({i \in 1..Len(db) : db[i].measure_uuid = measure_uuid})

\* A duplicate check that leaves out the comparison of the types.
IsDoubleReportAnyType(db, measure_datetime, measure_type) ==
  FindByDatetime(db, measure_datetime) # 0

\* The duplicate check of POST /upload: an existing measure with the same
\* datetime whose type equals the submitted one.
IsDoubleReport(db, measure_datetime, measure_type) ==
  LET i == FindByDatetime(db, measure_datetime)
  IN i # 0 /\ db[i].measure_type = measure_type

(* ------------------------------- state --------------------------------- *)

VARIABLES
  database,   \* the Measure[] of the server
  now,        \* Date.now()
  uploads,    \* the upload handlers suspended at an await
  started,    \* number of uploads that passed validation
  files,      \* the paths that exist under tmp/
  res         \* the last response sent

vars == <<database, now, uploads, started, files, res>>

Slots == 1..MaxInFlight

Idle == [pc |-> "idle", customer_code |-> "", measure_datetime |-> "",
         measure_type |-> "", filePath |-> ""]

NoResponse ==
  [op |-> "none", status |-> 0, error_code |-> "", rule |-> "", measures |-> << >>]

\* A response: its status, its error_code, the rule an INVALID_DATA upload
\* response describes, and the measures of a list response.
Response(op, status, error_code, rule) ==
  [op |-> op, status |-> status, error_code |-> error_code, rule |-> rule,
   measures |-> << >>]

Init ==
  /\ database = << >>
  /\ now = 0
  /\ uploads = [s \in Slots |-> Idle]
  /\ started = 0
  /\ files = {}
  /\ res = NoResponse

\* The clock advances between two steps of the event loop.
Tick ==
  /\ now < MaxClock
  /\ now' = now + 1
  /\ UNCHANGED <<database, uploads, started, files, res>>

(* ---------------------------- POST /upload ----------------------------- *)

\* Lines 185-202: validation, the file name, and the await of mkdir; `limit`
\* bounds the number of uploads of a run.
UploadStartUpTo(limit, s, image, customer_code, measure_datetime, measure_type) ==
  LET rule == validateUploadRequest(image, customer_code, measure_datetime, measure_type)
  IN /\ uploads[s].pc = "idle"
     /\ \A t \in Slots : t < s => uploads[t].pc # "idle"
     /\ IF rule # NoError
        THEN /\ res' = Response("upload", 400, "INVALID_DATA", rule)
             /\ UNCHANGED <<uploads, started>>
        ELSE /\ started < limit
             /\ started' = started + 1
             /\ uploads' = [uploads EXCEPT ![s] =
                  [pc |-> "mkdir", customer_code |-> customer_code,
                   measure_datetime |-> measure_datetime,
                   measure_type |-> measure_type, filePath |-> FilePath(now)]]
             /\ UNCHANGED res
     /\ UNCHANGED <<database, now, files>>

\* An upload request arrives, possibly while others are suspended.
UploadStart(s, image, customer_code, measure_datetime, measure_type) ==
  UploadStartUpTo(MaxUploads, s, image, customer_code, measure_datetime, measure_type)

\* An upload request arrives when no other upload is being handled.
SerialUploadStart(image, customer_code, measure_datetime, measure_type) ==
  /\ \A t \in Slots : uploads[t].pc = "idle"
  /\ UploadStartUpTo(MaxSerialUploads, 1, image, customer_code, measure_datetime,
                     measure_type)

\* The same, with a body of WideUploadBodies.
WideUploadStart(image, customer_code, measure_datetime, measure_type) ==
  /\ \A t \in Slots : uploads[t].pc = "idle"
  /\ UploadStartUpTo(MaxWideUploads, 1, image, customer_code, measure_datetime,
                     measure_type)

\* The same, with a body of AllUploadBodies.
ValidatedUploadStart(image, customer_code, measure_datetime, measure_type) ==
  /\ \A t \in Slots : uploads[t].pc = "idle"
  /\ UploadStartUpTo(MaxValidated, 1, image, customer_code, measure_datetime,
                     measure_type)

\* Lines 204-214: the duplicate check, run when mkdir has resolved.
UploadCheck(s) ==
  /\ uploads[s].pc = "mkdir"
  /\ IF IsDoubleReport(database, uploads[s].measure_datetime, uploads[s].measure_type)
     THEN /\ res' = Response("upload", 409, "DOUBLE_REPORT", "")
          /\ uploads' = [uploads EXCEPT ![s] = Idle]
     ELSE /\ uploads' = [uploads EXCEPT ![s].pc = "toFile"]
          /\ UNCHANGED res
  /\ UNCHANGED <<database, now, started, files>>

\* Line 218 resolves: sharp wrote the file.
UploadToFileDone(s) ==
  /\ uploads[s].pc = "toFile"
  /\ files' = files \cup {uploads[s].filePath}
  /\ uploads' = [uploads EXCEPT ![s].pc = "recognize"]
  /\ UNCHANGED <<database, now, started, res>>

\* Line 218 rejects: the catch of lines 248-253 answers 500; the file may or
\* may not have been created.
UploadToFileFails(s) ==
  /\ uploads[s].pc = "toFile"
  /\ \E written \in BOOLEAN :
       files' = IF written THEN files \cup {uploads[s].filePath} ELSE files
  /\ res' = Response("upload", 500, "INTERNAL_ERROR", "")
  /\ uploads' = [uploads EXCEPT ![s].pc = "unlink"]
  /\ UNCHANGED <<database, now, started>>

\* Lines 66-111: the value processAndDescribeImage resolves to.
processAndDescribeImage(reply) ==
  IF reply = ServiceThrows THEN Null
  ELSE IF parseFloat(reply) = NaN THEN Null ELSE parseFloat(reply)

\* Lines 231-239.
NewMeasure(u, measureValue, t) ==
  [measure_uuid |-> TimeString(t),
   customer_code |-> u.customer_code,
   measure_datetime |-> u.measure_datetime,
   measure_type |-> u.measure_type,
   filePath |-> u.filePath,
   measure_value |-> measureValue,
   has_confirmed |-> FALSE]

\* A resumption that saves the measure before it tests the value for null.
UploadRecognizedSavesFirst(s, reply) ==
  LET measureValue == processAndDescribeImage(reply)
  IN /\ uploads[s].pc = "recognize"
     /\ database' = Append(database, NewMeasure(uploads[s], measureValue, now))
     /\ IF measureValue = Null
        THEN res' = Response("upload", 500, "INTERNAL_ERROR", "")
        ELSE res' = Response("upload", 200, "", "")
     /\ uploads' = [uploads EXCEPT ![s].pc = "unlink"]
     /\ UNCHANGED <<now, started, files>>

\* Lines 221-247: processAndDescribeImage has resolved.
UploadRecognized(s, reply) ==
  LET measureValue == processAndDescribeImage(reply)
  IN /\ uploads[s].pc = "recognize"
     /\ IF measureValue = Null
        THEN /\ res' = Response("upload", 500, "INTERNAL_ERROR", "")
             /\ UNCHANGED database
        ELSE /\ database' = Append(database, NewMeasure(uploads[s], measureValue, now))
             /\ res' = Response("upload", 200, "", "")
     /\ uploads' = [uploads EXCEPT ![s].pc = "unlink"]
     /\ UNCHANGED <<now, started, files>>

\* A finally block that leaves the file.
UploadUnlinkKeepsFile(s) ==
  /\ uploads[s].pc = "unlink"
  /\ uploads' = [uploads EXCEPT ![s] = Idle]
  /\ UNCHANGED <<database, now, started, files, res>>

\* Lines 254-262: the finally block's unlink has settled.
UploadUnlink(s) ==
  /\ uploads[s].pc = "unlink"
  /\ files' = files \ {uploads[s].filePath}
  /\ uploads' = [uploads EXCEPT ![s] = Idle]
  /\ UNCHANGED <<database, now, started, res>>

(* --------------------------- PATCH /confirm ---------------------------- *)

\* A confirm handler that leaves out the test of has_confirmed.
ConfirmStatusUntested(db, measure_uuid, confirmed_value) ==
  IF TypeOf(measure_uuid) # "string" \/ TypeOfValue(confirmed_value) # "number"
  THEN 400
  ELSE IF FindByUuid(db, measure_uuid) = 0 THEN 404
  ELSE 200

\* Lines 270-304: the status the confirm handler answers with, after the type
\* check, the lookup and the test of has_confirmed, in that order.
ConfirmStatus(db, measure_uuid, confirmed_value) ==
  LET i == FindByUuid(db, measure_uuid)
  IN IF TypeOf(measure_uuid) # "string" \/ TypeOfValue(confirmed_value) # "number"
     THEN 400
     ELSE IF i = 0 THEN 404
     ELSE IF db[i].has_confirmed THEN 409
     ELSE 200

\* error_code of the confirm handler's answer.
ConfirmErrorCode(status) ==
  CASE status = 400 -> "INVALID_DATA"
    [] status = 404 -> "MEASURE_NOT_FOUND"
    [] status = 409 -> "CONFIRMATION_DUPLICATE"
    [] OTHER -> ""

\* A confirm handler that also clears the path of the deleted image.
ConfirmClearsPath(measure_uuid, confirmed_value) ==
  LET i == FindByUuid(database, measure_uuid)
      status == ConfirmStatus(database, measure_uuid, confirmed_value)
  IN /\ res' = Response("confirm", status, ConfirmErrorCode(status), "")
     /\ IF status = 200
        THEN database' = [database EXCEPT ![i].measure_value = confirmed_value,
                                          ![i].has_confirmed = TRUE,
                                          ![i].filePath = ""]
        ELSE UNCHANGED database
     /\ UNCHANGED <<now, uploads, started, files>>

\* Lines 266-312: the handler has no await, so the event loop runs it from
\* its first line to its response in one step.
Confirm(measure_uuid, confirmed_value) ==
  LET i == FindByUuid(database, measure_uuid)
      status == ConfirmStatus(database, measure_uuid, confirmed_value)
  IN /\ res' = Response("confirm", status, ConfirmErrorCode(status), "")
     /\ IF status = 200
        THEN database' = [database EXCEPT ![i].measure_value = confirmed_value,
                                          ![i].has_confirmed = TRUE]
        ELSE UNCHANGED database
     /\ UNCHANGED <<now, uploads, started, files>>

\* The measure_uuid values a confirm request may carry.
ConfirmUuids == {TimeString(t) : t \in 0..MaxClock} \cup {"unknown", NumberValue}

(* ---------------------- GET /:customer_code/list ----------------------- *)

\* A filter that compares the stored type as it was sent.
ListMeasuresAsSent(db, customer_code, measure_type) ==
  LET OfCustomer(m) == m.customer_code = customer_code
      OfType(m) == m.measure_type = toUpperCase(measure_type)
      measures == SelectSeq(db, OfCustomer)
  IN IF measure_type # Undefined THEN SelectSeq(measures, OfType) ELSE measures

\* Lines 330-337: the measures of the customer, of the type when one is given,
\* as Array.prototype.filter keeps them: in the order of the database.
ListMeasures(db, customer_code, measure_type) ==
  LET OfCustomer(m) == m.customer_code = customer_code
      OfType(m) == toUpperCase(m.measure_type) = toUpperCase(measure_type)
      measures == SelectSeq(db, OfCustomer)
  IN IF measure_type # Undefined THEN SelectSeq(measures, OfType) ELSE measures

\* Lines 350-356: what the response shows of one measure.
ListItem(measure) ==
  [measure_uuid |-> measure.measure_uuid,
   measure_datetime |-> measure.measure_datetime,
   measure_type |-> measure.measure_type,
   has_confirmed |-> measure.has_confirmed,
   image_url |-> measure.filePath]

\* Lines 314-361.
List(customer_code, measure_type) ==
  LET measures == ListMeasures(database, customer_code, measure_type)
  IN
  /\ IF measure_type # Undefined /\ toUpperCase(measure_type) \notin {"WATER", "GAS"}
     THEN res' = Response("list", 400, "INVALID_TYPE", "")
     ELSE IF measures = << >>
     THEN res' = Response("list", 404, "MEASURES_NOT_FOUND", "")
     ELSE res' = [Response("list", 200, "", "") EXCEPT
                    !.measures = [i \in 1..Len(measures) |-> ListItem(measures[i])]]
  /\ UNCHANGED <<database, now, uploads, started, files>>

(* --------------------------- specification ----------------------------- *)

\* The steps of the handlers once a request is being handled.
Handle ==
  \/ Tick
  \/ \E s \in Slots : UploadCheck(s)
  \/ \E s \in Slots : UploadToFileDone(s)
  \/ \E s \in Slots : UploadToFileFails(s)
  \/ \E s \in Slots, reply \in ServiceReplies : UploadRecognized(s, reply)
  \/ \E s \in Slots : UploadUnlink(s)
  \/ \E measure_uuid \in ConfirmUuids, confirmed_value \in ConfirmValues :
       Confirm(measure_uuid, confirmed_value)
  \/ \E customer_code \in ListCustomers, measure_type \in ListTypes :
       List(customer_code, measure_type)

Next ==
  \/ \E s \in Slots, body \in UploadBodies :
       UploadStart(s, body.image, body.customer_code, body.measure_datetime,
                   body.measure_type)
  \/ Handle

\* Requests of concurrent clients.
Spec == Init /\ [][Next]_vars

NextSerial ==
  \/ \E body \in UploadBodies :
       SerialUploadStart(body.image, body.customer_code, body.measure_datetime,
                         body.measure_type)
  \/ Handle

\* Uploads one after the other (confirm and list requests at any time).
SpecSerial == Init /\ [][NextSerial]_vars

NextInputs ==
  \/ \E body \in WideUploadBodies :
       WideUploadStart(body.image, body.customer_code, body.measure_datetime,
                       body.measure_type)
  \/ Handle

\* Uploads one after the other, of several customers and with the type in
\* either letter case.
SpecInputs == Init /\ [][NextInputs]_vars

\* The steps of an upload after its validation.
HandleUpload ==
  \/ \E s \in Slots : UploadCheck(s)
  \/ \E s \in Slots : UploadToFileDone(s)
  \/ \E s \in Slots : UploadToFileFails(s)
  \/ \E s \in Slots, reply \in ServiceReplies : UploadRecognized(s, reply)
  \/ \E s \in Slots : UploadUnlink(s)

NextValidated ==
  \/ \E body \in AllUploadBodies :
       ValidatedUploadStart(body.image, body.customer_code, body.measure_datetime,
                            body.measure_type)
  \/ HandleUpload

\* Upload requests only, with every combination of field values.
SpecValidated == Init /\ [][NextValidated]_vars

(* ------------------------------ claims --------------------------------- *)

\* The store holds a measure with this datetime and this type.
HasKey(db, measure_datetime, measure_type) ==
  \E i \in 1..Len(db) :
    /\ db[i].measure_datetime = measure_datetime
    /\ db[i].measure_type = measure_type

\* The step is the duplicate check of the upload in slot s.
ChecksDuplicate(s) == uploads[s].pc = "mkdir" /\ uploads'[s].pc # "mkdir"

\* The step is the resumption of the upload in slot s after recognition.
Resumes(s) == uploads[s].pc = "recognize" /\ uploads'[s].pc = "unlink"

\* The step appends exactly one measure, built from the upload in slot s.
AppendsMeasureOf(s) ==
  /\ Len(database') = Len(database) + 1
  /\ SubSeq(database', 1, Len(database)) = database
  /\ LET m == database'[Len(database')]
     IN /\ m.customer_code = uploads[s].customer_code
        /\ m.measure_datetime = uploads[s].measure_datetime
        /\ m.measure_type = uploads[s].measure_type
        /\ m.measure_value \notin {Null, NaN}

\* C1: in every reachable state the store holds at most one record for each
\* (reading_timestamp, reading_type) pair.
C1_OneRecordPerKey ==
  \A i, j \in 1..Len(database) :
    (/\ database[i].measure_datetime = database[j].measure_datetime
     /\ database[i].measure_type = database[j].measure_type) => i = j

\* C2: the duplicate check and the insert of an upload are indivisible: an
\* upload appends its record only in a state in which its duplicate check
\* still passes, so of two uploads with the same key that are in flight
\* together at most one appends.
C2_CheckThenInsertIndivisible ==
  [][\A s \in Slots :
       (Resumes(s) /\ Len(database') > Len(database))
         => ~IsDoubleReport(database, uploads[s].measure_datetime,
                            uploads[s].measure_type)]_vars

\* C3: an upload whose reading_timestamp and reading_type equal those of some
\* record of the store is rejected with 409 DOUBLE_REPORT and adds no record,
\* whatever else the store holds.
C3_SameKeyRejected ==
  [][\A s \in Slots :
       (/\ ChecksDuplicate(s)
        /\ HasKey(database, uploads[s].measure_datetime, uploads[s].measure_type))
         => /\ uploads'[s].pc = "idle"
            /\ res' = Response("upload", 409, "DOUBLE_REPORT", "")
            /\ database' = database]_vars

\* C5: all records of the store have pairwise distinct ids (ids of uploads
\* that complete within the same clock millisecond included).
C5_DistinctIds ==
  \A i, j \in 1..Len(database) :
    database[i].measure_uuid = database[j].measure_uuid => i = j

\* The datetime is that of some measure of the store, and every measure of
\* the store with that datetime has another type.
OnlyOtherTypes(db, measure_datetime, measure_type) ==
  /\ \E i \in 1..Len(db) : db[i].measure_datetime = measure_datetime
  /\ ~HasKey(db, measure_datetime, measure_type)

\* C4: an upload whose reading_timestamp is that of an existing record but
\* whose reading_type differs from it is not rejected as a duplicate, and when
\* recognition answers a number the upload responds 200 and appends exactly
\* one record.
C4_OtherTypeNotDuplicate ==
  [][\A s \in Slots :
       /\ (/\ ChecksDuplicate(s)
           /\ OnlyOtherTypes(database, uploads[s].measure_datetime,
                             uploads[s].measure_type))
            => /\ uploads'[s].pc = "toFile"
               /\ res' = res
               /\ database' = database
       /\ \A reply \in ServiceReplies :
            (/\ Resumes(s)
             /\ reply # ServiceThrows
             /\ parseFloat(reply) # NaN
             /\ UploadRecognized(s, reply))
              => /\ res' = Response("upload", 200, "", "")
                 /\ AppendsMeasureOf(s)]_vars

\* C4 witness: the last upload was answered 200 and its record stands in the
\* store after a record with the same datetime and another type.
C4_Witness ==
  /\ res.op = "upload" /\ res.status = 200
  /\ Len(database) = 2
  /\ database[1].measure_datetime = database[2].measure_datetime
  /\ database[1].measure_type # database[2].measure_type

\* The step is a confirm request answered 200.
ConfirmSucceeds ==
  /\ res'.op = "confirm" /\ res'.status = 200
  /\ \E measure_uuid \in ConfirmUuids, confirmed_value \in ConfirmValues :
       Confirm(measure_uuid, confirmed_value)

\* C6: a record is created with has_confirmed false, the flag only goes from
\* false to true, and every confirm request that succeeds turns the flag of
\* exactly one record from false to true, so that at most one succeeds per
\* record.
C6_ConfirmedOnce ==
  [][/\ Len(database') >= Len(database)
     /\ \A i \in 1..Len(database') :
          IF i > Len(database)
          THEN ~database'[i].has_confirmed
          ELSE database[i].has_confirmed => database'[i].has_confirmed
     /\ ConfirmSucceeds
          => Cardinality({i \in 1..Len(database) :
                            ~database[i].has_confirmed
                            /\ database'[i].has_confirmed}) = 1
     /\ ~ConfirmSucceeds
          => \A i \in 1..Len(database) :
               database'[i].has_confirmed = database[i].has_confirmed]_vars

\* C6 witness: a record is confirmed and a further confirm request has been
\* answered 409.
C6_Witness ==
  /\ res.op = "confirm" /\ res.status = 409
  /\ \E i \in 1..Len(database) : database[i].has_confirmed

\* The id is that of a record of the store that is pending.
IsPendingId(db, measure_uuid) ==
  \E i \in 1..Len(db) : db[i].measure_uuid = measure_uuid /\ ~db[i].has_confirmed

\* The id is that of a record of the store that is confirmed.
IsConfirmedId(db, measure_uuid) ==
  \E i \in 1..Len(db) : db[i].measure_uuid = measure_uuid /\ db[i].has_confirmed

\* The request carries a string id and a numeric value.
WellTyped(measure_uuid, confirmed_value) ==
  TypeOf(measure_uuid) = "string" /\ TypeOfValue(confirmed_value) = "number"

\* C7: for the id of every pending record and all numeric v, v2: confirm(id, v)
\* succeeds and stores v, and a later confirm(id, v2) is answered 409
\* CONFIRMATION_DUPLICATE and leaves the stored value.
C7_ConfirmThenDuplicate ==
  [][\A measure_uuid \in ConfirmUuids, v \in ConfirmValues :
       (/\ res'.op = "confirm"
        /\ WellTyped(measure_uuid, v)
        /\ Confirm(measure_uuid, v))
         => /\ IsPendingId(database, measure_uuid)
                 => /\ res' = Response("confirm", 200, "", "")
                    /\ \E i \in 1..Len(database) :
                         /\ database[i].measure_uuid = measure_uuid
                         /\ ~database[i].has_confirmed
                         /\ database'[i].has_confirmed
                         /\ database'[i].measure_value = v
            /\ (~IsPendingId(database, measure_uuid)
                /\ IsConfirmedId(database, measure_uuid))
                 => /\ res' = Response("confirm", 409, "CONFIRMATION_DUPLICATE", "")
                    /\ database' = database]_vars

\* C8: a confirm request whose id matches no record leaves the store as it
\* was, and when it is well typed (the type check comes before the lookup) it
\* is answered 404 MEASURE_NOT_FOUND.
C8_UnknownIdNotFound ==
  [][\A measure_uuid \in ConfirmUuids, confirmed_value \in ConfirmValues :
       (/\ res'.op = "confirm"
        /\ \A i \in 1..Len(database) : database[i].measure_uuid # measure_uuid
        /\ Confirm(measure_uuid, confirmed_value))
         => /\ database' = database
            /\ WellTyped(measure_uuid, confirmed_value)
                 => res' = Response("confirm", 404, "MEASURE_NOT_FOUND", "")
            /\ ~WellTyped(measure_uuid, confirmed_value)
                 => res' = Response("confirm", 400, "INVALID_DATA", "")]_vars

\* C8 witness: the store holds records and the last request, a confirm, was
\* answered 404.
C8_Witness ==
  /\ res.op = "confirm" /\ res.status = 404
  /\ database # << >>

\* C9: of two confirm requests for the id of a pending record that are in
\* flight together, the one whose handler runs first succeeds and leaves a
\* store in which the handler of the other answers 409
\* CONFIRMATION_DUPLICATE: exactly one succeeds.
C9_ExactlyOneConfirmSucceeds ==
  [][\A measure_uuid \in ConfirmUuids, v, v2 \in ConfirmValues :
       (/\ res'.op = "confirm"
        /\ WellTyped(measure_uuid, v) /\ WellTyped(measure_uuid, v2)
        /\ IsPendingId(database, measure_uuid)
        /\ Confirm(measure_uuid, v))
         => /\ res'.status = 200
            /\ ConfirmStatus(database', measure_uuid, v2) = 409]_vars

\* The step is a successful confirm: only values and flags change.
ConfirmChange ==
  /\ res'.op = "confirm" /\ res'.status = 200
  /\ uploads' = uploads
  /\ Len(database') = Len(database)

\* The fields of an upload being handled pass the validation.
Validated(u) ==
  /\ TypeOf(u.customer_code) = "string"
  /\ isValidDate(u.measure_datetime)
  /\ toUpperCase(u.measure_type) \in {"WATER", "GAS"}

\* C10: an upload changes the store only when it passed validation and the
\* duplicate check and recognition returned a number: the step that answers
\* 200 appends exactly one record, and every step of an upload that answers
\* 400, 409 or 500, or answers nothing, leaves the store as it was.
C10_UploadMutatesOnlyOnSuccess ==
  [][/\ database' # database
          => \/ ConfirmChange
             \/ \E s \in Slots : Resumes(s) /\ Validated(uploads[s])
     /\ \A s \in Slots :
          /\ Resumes(s)
               => /\ res'.op = "upload"
                  /\ \/ res'.status = 200 /\ AppendsMeasureOf(s)
                     \/ res'.status = 500 /\ database' = database
          /\ (uploads'[s] # uploads[s] /\ ~Resumes(s)) => database' = database
     /\ (res'.op = "upload" /\ res'.status \in {400, 409, 500})
          => database' = database]_vars

\* C10 witness: an upload has appended a record, and the last upload, past its
\* duplicate check, was answered 500 and left that store.
C10_Witness ==
  /\ res.op = "upload" /\ res.status = 500
  /\ Len(database) = 1
  /\ \E s \in Slots : uploads[s].pc = "unlink"

\* The field of the record that a confirm writes (line 298) holds a value.
CarriesValue(m) == m.measure_value # Null

\* C11: in every reachable state a record carries a confirmed value if and
\* only if its has_confirmed flag is true: the field a successful confirm
\* writes its value to is unset on every pending record and set on every
\* confirmed one.
C11_ConfirmedValueIffConfirmed ==
  \A i \in 1..Len(database) :
    CarriesValue(database[i]) <=> database[i].has_confirmed

\* C12: the value recognition returned for a record is set at its creation
\* and no later step, a successful confirm included, changes or clears it.
C12_RecognizedValueKept ==
  [][\A i \in 1..Len(database) :
       /\ i <= Len(database')
       /\ database'[i].measure_value = database[i].measure_value]_vars

\* The filter of a list request is absent or names WATER or GAS.
ValidFilter(measure_type) ==
  measure_type = Undefined \/ toUpperCase(measure_type) \in {"WATER", "GAS"}

\* The records of db, in the order of db, that are of customer c and, when a
\* normalized type t is given, of type t once normalized.
RECURSIVE MatchingRecords(_, _, _)
MatchingRecords(db, c, t) ==
  IF db = << >> THEN << >>
  ELSE LET m == db[Len(db)]
           before == MatchingRecords(SubSeq(db, 1, Len(db) - 1), c, t)
       IN IF m.customer_code = c /\ (t = Undefined \/ toUpperCase(m.measure_type) = t)
          THEN Append(before, m)
          ELSE before

\* The response shows the record: its id, datetime, type, flag and image path.
Shows(item, m) ==
  /\ item.measure_uuid = m.measure_uuid
  /\ item.measure_datetime = m.measure_datetime
  /\ item.measure_type = m.measure_type
  /\ item.has_confirmed = m.has_confirmed
  /\ item.image_url = m.filePath

\* C13: for every store, customer code c and valid type filter t, the list
\* request returns exactly the records whose customer_code is c and whose
\* normalized type is t (all records of c without a filter), in insertion
\* order; it answers 404 MEASURES_NOT_FOUND exactly when there is none, and it
\* leaves the store as it was.
C13_ListReturnsMatching ==
  [][\A c \in ListCustomers, q \in ListTypes :
       (/\ res'.op = "list"
        /\ ValidFilter(q)
        /\ List(c, q))
         => LET t == IF q = Undefined THEN Undefined ELSE toUpperCase(q)
                expected == MatchingRecords(database, c, t)
            IN /\ database' = database
               /\ IF expected = << >>
                  THEN res' = Response("list", 404, "MEASURES_NOT_FOUND", "")
                  ELSE /\ res'.status = 200
                       /\ Len(res'.measures) = Len(expected)
                       /\ \A k \in 1..Len(expected) :
                            Shows(res'.measures[k], expected[k])]_vars

\* C13 witness: of two records the list request returned one, and its type
\* is stored in lower case.
C13_Witness ==
  /\ res.op = "list" /\ res.status = 200
  /\ Len(database) = 2
  /\ Len(res.measures) = 1
  /\ res.measures[1].measure_type = "water"

\* C14: every record of the store has a measure_type that is exactly WATER
\* or GAS, whatever letter case the upload used.
C14_StoredTypeNormalized ==
  \A i \in 1..Len(database) : database[i].measure_type \in {"WATER", "GAS"}

\* C15: no upload whose customer_code is the empty string passes the
\* validation, and no record of the store has an empty customer_code.
C15_EmptyCustomerCodeRejected ==
  /\ \A s \in Slots : uploads[s].pc # "idle" => uploads[s].customer_code # ""
  /\ \A i \in 1..Len(database) : database[i].customer_code # ""

\* The four rules of validateUploadRequest, each on its own field:
\* customer_code is a string (the rule of line 163, which the empty string
\* passes), measure_datetime parses as a date, measure_type is WATER or GAS in
\* either letter case, image is a base64 image.
CustomerCodeValid(customer_code) == TypeOf(customer_code) = "string"

DatetimeValid(measure_datetime) == measure_datetime \in ValidDatetimes

TypeValid(measure_type) == measure_type \in {"WATER", "GAS", "water"}

ImageValid(image) == image \in ValidImages

\* The rule reported for the body is the rule of its earliest invalid field.
ReportsEarliestInvalid(rule, body) ==
  /\ rule = "customer_code" <=> ~CustomerCodeValid(body.customer_code)
  /\ rule = "measure_datetime"
       <=> /\ CustomerCodeValid(body.customer_code)
           /\ ~DatetimeValid(body.measure_datetime)
  /\ rule = "measure_type"
       <=> /\ CustomerCodeValid(body.customer_code)
           /\ DatetimeValid(body.measure_datetime)
           /\ ~TypeValid(body.measure_type)
  /\ rule = "image"
       <=> /\ CustomerCodeValid(body.customer_code)
           /\ DatetimeValid(body.measure_datetime)
           /\ TypeValid(body.measure_type)
           /\ ~ImageValid(body.image)
  /\ rule = NoError
       <=> /\ CustomerCodeValid(body.customer_code)
           /\ DatetimeValid(body.measure_datetime)
           /\ TypeValid(body.measure_type)
           /\ ImageValid(body.image)

C17_AppendOnlyConfirmFrame ==
  [][/\ Len(database') >= Len(database)
     /\ \A i \in 1..Len(database) :
          /\ database'[i].measure_uuid = database[i].measure_uuid
          /\ database'[i].customer_code = database[i].customer_code
          /\ database'[i].measure_datetime = database[i].measure_datetime
          /\ database'[i].measure_type = database[i].measure_type
          /\ database'[i].filePath = database[i].filePath
     /\ \A measure_uuid \in ConfirmUuids, confirmed_value \in ConfirmValues :
          (/\ res'.op = "confirm" /\ res'.status = 200
           /\ Confirm(measure_uuid, confirmed_value))
            => /\ Len(database') = Len(database)
               /\ \E i \in 1..Len(database) :
                    /\ database[i].measure_uuid = measure_uuid
                    /\ \A j \in 1..Len(database) :
                         j # i => database'[j] = database[j]
     /\ ~(res'.op = "confirm" /\ res'.status = 200)
          => \A i \in 1..Len(database) : database'[i] = database[i]]_vars

\* C17 witness: a confirm has succeeded on one of two records and the other
\* is still pending.
C17_Witness ==
  /\ res.op = "confirm" /\ res.status = 200
  /\ Len(database) = 2
  /\ database[1].has_confirmed # database[2].has_confirmed

\* C18: an image file exists under tmp/ only while an upload that wrote it
\* is still being handled; once an upload has completed, on whichever path,
\* the file it staged is deleted.
C18_StagedArtifactDeleted ==
  /\ \A f \in files :
       \E s \in Slots :
         uploads[s].filePath = f /\ uploads[s].pc \in {"recognize", "unlink"}
  /\ (\A s \in Slots : uploads[s].pc = "idle") => files = {}

\* C18 witness: two uploads that staged an image have completed, one with a
\* record and one without, and no file is left.
C18_Witness ==
  /\ \A s \in Slots : uploads[s].pc = "idle"
  /\ started = 2
  /\ Len(database) = 1
  /\ res.op = "upload" /\ res.status \in {200, 500}
  /\ files = {}

\* C19: the file an upload staged stays in place while that upload waits for
\* its recognition call: no other request overwrites or deletes it.
C19_StagedArtifactStays ==
  \A s \in Slots : uploads[s].pc = "recognize" => uploads[s].filePath \in files

\* C20: an upload is answered 409 DOUBLE_REPORT only if, at its duplicate
\* check, the store holds a record with its datetime and its type; an upload
\* whose key the store does not hold goes on.
C20_RejectedOnlyIfKeyStored ==
  [][\A s \in Slots :
       ChecksDuplicate(s)
         => /\ (uploads'[s].pc = "idle"
                \/ (res'.op = "upload" /\ res'.status = 409 /\ res' # res))
                 => HasKey(database, uploads[s].measure_datetime,
                           uploads[s].measure_type)
            /\ ~HasKey(database, uploads[s].measure_datetime,
                       uploads[s].measure_type)
                 => uploads'[s].pc = "toFile" /\ res' = res]_vars

\* C20 witness: an upload has been answered 409 against a store that holds
\* one record.
C20_Witness ==
  /\ res.op = "upload" /\ res.status = 409 /\ res.error_code = "DOUBLE_REPORT"
  /\ Len(database) = 1

====
